---- MODULE Spec2Model ----
(***************************************************************************)
(* Model of generate-fit-profile/src/field_types.rs: the generator that    *)
(* turns the FIT profile's field-type catalog into Rust enums plus the     *)
(* FieldDataType registry, and of the code it generates.                   *)
(*                                                                         *)
(* A TokenStream is modelled by a record holding what the quoted code      *)
(* contains (match arms in their order, identifiers, format strings); the  *)
(* generated functions are modelled by operators that evaluate those       *)
(* records the way rustc-compiled match expressions do (first arm that     *)
(* matches).  Doc comments carry no behaviour and are left out.            *)
(***************************************************************************)
EXTENDS Integers, Sequences, FiniteSets, TLC

VARIABLES profile, pc, idx, main_enum, field_type_enums, sink, obj, res

vars == <<profile, pc, idx, main_enum, field_type_enums, sink, obj, res>>

(***************************************************************************)
(* Bounds of the model.                                                    *)
(***************************************************************************)
\* largest number of variants in one definition's variant_map
MaxVariants == 2
\* names a definition of the catalog may carry
Names == {"display_measure", "date_time"}
\* base_type strings: two Rust integer types and one string that is no type
BaseTypeStrs == {"u8", "i8", "u 8"}
\* names of the fallback case: one identifier and one string that is none
OtherNames == {"UnknownVariant", "Unknown Variant"}
\* the variants a variant_map is drawn from
VariantPool ==
    { [value |-> 0, name |-> "metric", ident |-> "Metric"],
      [value |-> 1, name |-> "statute", ident |-> "Statute"],
      [value |-> -127, name |-> "invalid", ident |-> "Invalid"] }
\* the i64 arguments the generated functions are called with
InputValues == {-127, 0, 1, 20, 256, 300}
Versions == {"21.40"}

\* no value constructed yet, no call made yet
NoObj == [via |-> "none"]
NoRes == [op |-> "none"]

(***************************************************************************)
(* Rust's integer types and the `as` cast between them.                    *)
(***************************************************************************)
TypeMin(ty) == IF ty = "u8" THEN 0 ELSE -128
TypeMax(ty) == IF ty = "u8" THEN 255 ELSE 127
InRange(v, ty) == TypeMin(ty) <= v /\ v <= TypeMax(ty)

\* variation: the cast goes to the unsigned type of the same width
Cast_unsigned(v, ty) == v % 256

\* `value as #base_type` for an i64 value: two's complement truncation
Cast(v, ty) == ((v - TypeMin(ty)) % 256) + TypeMin(ty)

\* strings of the model that lex as one Rust identifier
ValidIdents ==
    { "u8", "i8", "as_u8", "as_i8", "serialize_u8", "serialize_i8",
      "UnknownVariant" }
IsIdent(s) == s \in ValidIdents

\* variation: the identifier is built without the validity check
format_ident_unchecked(s) == [ok |-> TRUE, ident |-> s]

\* format_ident!: panics when the formatted string is no identifier
format_ident(s) == IF IsIdent(s) THEN [ok |-> TRUE, ident |-> s] ELSE [ok |-> FALSE]

\* syn::parse_str::<syn::Type>(..).expect(..)
type_str_as_type(type_str) ==
    IF type_str \in {"u8", "i8"}
    THEN [ok |-> TRUE, ty |-> type_str]
    ELSE [ok |-> FALSE]

\* syn::parse_str::<syn::Index>(..).expect(..): an Index holds a u32, so a
\* negative number is refused (the upper end of u32 lies beyond every value
\* the 8-bit base types of the model can hold)
bare_number_literal(value) ==
    IF 0 <= value
    THEN [ok |-> TRUE, index |-> value]
    ELSE [ok |-> FALSE]

(***************************************************************************)
(* The schema model handed to the generator (crate::parse).                *)
(***************************************************************************)
Ident(name) ==
    CASE name = "display_measure" -> "DisplayMeasure"
      [] name = "date_time" -> "DateTime"
      [] name = "local_date_time" -> "LocalDateTime"

TrueEnumDenylist == {"date_time", "local_date_time"}

is_true_enum(f) == f.name \notin TrueEnumDenylist

other_value_field_name(f) == f.other_value_field_name

\* variant_map().values() and .keys(), in the map's iteration order
variant_values(f) == f.variant_map
variant_keys(f) == [i \in DOMAIN f.variant_map |-> f.variant_map[i].value]

VariantSeqs(pool) ==
    UNION { { s \in [1..n -> pool] : \A i, j \in 1..n : s[i].value = s[j].value => i = j }
            : n \in 0..MaxVariants }

\* Schema invariant: every variant value is representable in base_type.
PoolOf(bt) ==
    IF bt \in {"u8", "i8"} THEN {v \in VariantPool : InRange(v.value, bt)} ELSE VariantPool

FieldTypeDefinitions ==
    UNION { { [name |-> n, ident |-> Ident(n), base_type |-> bt,
               other_value_field_name |-> o, variant_map |-> vm]
              : n \in Names, o \in OtherNames, vm \in VariantSeqs(PoolOf(bt)) }
            : bt \in BaseTypeStrs }

\* catalogs: the type names are distinct
Catalogs ==
    UNION { { c \in [1..n -> FieldTypeDefinitions] :
                \A i, j \in 1..n : c[i].name = c[j].name => i = j }
            : n \in 1..Cardinality(Names) }

(***************************************************************************)
(* The generator, one operator per function of field_types.rs.  A result   *)
(* with ok = FALSE is a panic of the generator (an .expect() that failed). *)
(***************************************************************************)
SeqAll(s) == \A i \in DOMAIN s : s[i].ok

\* variation: the first key gets no match arm
field_type_enum_is_named_variant_skip_first(f) ==
    [ok |-> TRUE,
     true_arms |-> IF variant_keys(f) = <<>> THEN <<>> ELSE Tail(variant_keys(f))]

field_type_enum_is_named_variant(f) ==
    [ok |-> TRUE, true_arms |-> variant_keys(f)]

\* variation: an arm returns the variant's position instead of its value
field_type_enum_as_type_by_position(f) ==
    LET fn_ident == format_ident("as_" \o f.base_type)
        rtype == type_str_as_type(f.base_type)
        lits == [i \in DOMAIN variant_values(f) |->
                    bare_number_literal(variant_values(f)[i].value)]
        other_value_ident == format_ident(other_value_field_name(f))
    IN  IF fn_ident.ok /\ rtype.ok /\ SeqAll(lits) /\ other_value_ident.ok
        THEN [ok |-> TRUE,
              fn_ident |-> fn_ident.ident,
              rtype |-> rtype.ty,
              match_arms |-> [i \in DOMAIN variant_values(f) |->
                                 [vid |-> variant_values(f)[i].ident, val |-> i - 1]],
              other |-> other_value_ident.ident]
        ELSE [ok |-> FALSE]

field_type_enum_as_type(f) ==
    LET fn_ident == format_ident("as_" \o f.base_type)
        rtype == type_str_as_type(f.base_type)
        lits == [i \in DOMAIN variant_values(f) |->
                    bare_number_literal(variant_values(f)[i].value)]
        other_value_ident == format_ident(other_value_field_name(f))
    IN  IF fn_ident.ok /\ rtype.ok /\ SeqAll(lits) /\ other_value_ident.ok
        THEN [ok |-> TRUE,
              fn_ident |-> fn_ident.ident,
              rtype |-> rtype.ty,
              match_arms |-> [i \in DOMAIN variant_values(f) |->
                                 [vid |-> variant_values(f)[i].ident, val |-> lits[i].index]],
              other |-> other_value_ident.ident]
        ELSE [ok |-> FALSE]

field_type_enum_impl(f) ==
    LET is_named_variant == field_type_enum_is_named_variant(f)
        as_numeric_types == field_type_enum_as_type(f)
    IN  IF as_numeric_types.ok
        THEN [ok |-> TRUE, is_named_variant |-> is_named_variant,
              as_numeric_types |-> as_numeric_types]
        ELSE [ok |-> FALSE]

field_type_enum_impl_display(f) ==
    LET other_val_ident == format_ident(other_value_field_name(f))
    IN  IF other_val_ident.ok
        THEN [ok |-> TRUE,
              match_arms |-> [i \in DOMAIN variant_values(f) |->
                                 [vid |-> variant_values(f)[i].ident,
                                  name |-> variant_values(f)[i].name]],
              other |-> other_val_ident.ident,
              other_fmt |-> IF is_true_enum(f) THEN "unknown_variant_{}" ELSE "{}"]
        ELSE [ok |-> FALSE]

field_type_enum_impl_from(f) ==
    LET base_type == type_str_as_type(f.base_type)
        lits == [i \in DOMAIN variant_values(f) |->
                    bare_number_literal(variant_values(f)[i].value)]
        other_val_ident == format_ident(other_value_field_name(f))
    IN  IF base_type.ok /\ SeqAll(lits) /\ other_val_ident.ok
        THEN [ok |-> TRUE,
              base_type |-> base_type.ty,
              match_arms |-> [i \in DOMAIN variant_values(f) |->
                                 [value |-> lits[i].index, vid |-> variant_values(f)[i].ident]],
              other |-> other_val_ident.ident]
        ELSE [ok |-> FALSE]

\* variation: every type serializes as its display string
field_type_enum_impl_serialize_always_str(f) ==
    [ok |-> TRUE, other_fn |-> "serialize_str"]

field_type_enum_impl_serialize(f) ==
    IF is_true_enum(f)
    THEN [ok |-> TRUE, other_fn |-> "serialize_str"]
    ELSE LET serialize_fn == format_ident("serialize_" \o f.base_type)
             other_val_ident == format_ident(other_value_field_name(f))
         IN  IF serialize_fn.ok /\ other_val_ident.ok
             THEN [ok |-> TRUE, other_fn |-> serialize_fn.ident]
             ELSE [ok |-> FALSE]

field_type_enum_variant_line(variant) == variant.ident

field_type_enum_other_value(f) ==
    LET ident == format_ident(other_value_field_name(f))
        base_type == format_ident(f.base_type)
    IN  IF ident.ok /\ base_type.ok
        THEN [ok |-> TRUE, ident |-> ident.ident, base_type |-> base_type.ident]
        ELSE [ok |-> FALSE]

\* tokens: the items the call contributes to the unit (none for an empty variant_map)
field_type_enum(f) ==
    IF variant_values(f) = <<>>
    THEN [ok |-> TRUE, tokens |-> <<>>]
    ELSE LET variants == [i \in DOMAIN variant_values(f) |->
                             field_type_enum_variant_line(variant_values(f)[i])]
             other_val == field_type_enum_other_value(f)
             enum_impl == field_type_enum_impl(f)
             impl_display == field_type_enum_impl_display(f)
             impl_from == field_type_enum_impl_from(f)
             impl_serialize == field_type_enum_impl_serialize(f)
         IN  IF other_val.ok /\ enum_impl.ok /\ impl_display.ok /\ impl_from.ok
                /\ impl_serialize.ok
             THEN [ok |-> TRUE,
                   tokens |-> << [kind |-> "enum",
                                  ident |-> f.ident,
                                  cases |-> Append(variants, other_val.ident),
                                  other_val |-> other_val,
                                  enum_impl |-> enum_impl,
                                  impl_display |-> impl_display,
                                  impl_from |-> impl_from,
                                  impl_serialize |-> impl_serialize] >>]
             ELSE [ok |-> FALSE]

base_types ==
    << "Bool", "SInt8", "UInt8", "SInt16", "UInt16", "SInt32", "UInt32", "String",
       "Float32", "Float64", "UInt8z", "UInt16z", "UInt32z", "Byte", "SInt64",
       "UInt64", "UInt64z" >>

is_enum_force_false == {"date_time", "local_date_time"}

RECURSIVE FilterSeq(_, _, _)
FilterSeq(s, keep, i) ==
    IF i > Len(s) THEN <<>>
    ELSE (IF i \in keep THEN <<s[i]>> ELSE <<>>) \o FilterSeq(s, keep, i + 1)

\* variation: the filter forgets the names forced to false
is_filtered_in_no_force_false(f) == variant_values(f) # <<>>

\* the filter of the three dispatch tables
is_filtered_in(f) == variant_values(f) # <<>> /\ f.name \notin is_enum_force_false

\* variation: only definitions with variants get a variant of FieldDataType
registry_variants_non_empty(field_types) ==
    FilterSeq([i \in DOMAIN field_types |-> field_types[i].ident],
              {i \in DOMAIN field_types : variant_values(field_types[i]) # <<>>}, 1)

\* the variants of pub enum FieldDataType contributed by the catalog
registry_variants(field_types) == [i \in DOMAIN field_types |-> field_types[i].ident]

generate_main_field_type_enum(field_types) ==
    LET variants == registry_variants(field_types)
        filtered_field_types ==
            FilterSeq(variants,
                      {i \in DOMAIN field_types : is_filtered_in(field_types[i])}, 1)
    IN  [kind |-> "registry",
         tags |-> base_types \o variants,
         is_enum_match_arms |-> filtered_field_types,
         is_named_match_arms |-> filtered_field_types,
         as_string_match_arms |-> filtered_field_types]

header(p) ==
    [kind |-> "header",
     doc |-> "Auto generated profile field types from FIT SDK Release: " \o p.version]

(***************************************************************************)
(* The generated code: each operator evaluates the items of the unit.      *)
(***************************************************************************)
MinOf(S) == CHOOSE m \in S : \A x \in S : m <= x

\* impl convert::From<#base_type> for #ident
from_base_type(e, value) ==
    LET arms == e.impl_from.match_arms
        hits == {i \in DOMAIN arms : arms[i].value = value}
    IN  IF hits # {}
        THEN [case |-> arms[MinOf(hits)].vid, payload |-> <<>>]
        ELSE [case |-> e.impl_from.other, payload |-> <<value>>]

\* variation: the i64 value is matched without the cast to base_type
from_i64_no_cast(e, value) == from_base_type(e, value)

\* impl convert::From<i64> for #ident
from_i64(e, value) == from_base_type(e, Cast(value, e.impl_from.base_type))

\* pub fn as_<base_type>(self)
as_base_type(e, self) ==
    LET arms == e.enum_impl.as_numeric_types.match_arms
        hits == {i \in DOMAIN arms : arms[i].vid = self.case}
    IN  IF hits # {} THEN arms[MinOf(hits)].val ELSE self.payload[1]

\* pub fn as_i64(self): the widening cast keeps the value
as_i64(e, self) == as_base_type(e, self)

\* pub fn is_named_variant(value: i64)
is_named_variant(e, value) ==
    \E i \in DOMAIN e.enum_impl.is_named_variant.true_arms :
        e.enum_impl.is_named_variant.true_arms[i] = value

\* write!(f, fmt, value) for the two format strings the generator emits
write_fmt(fmt, value) ==
    IF fmt = "unknown_variant_{}" THEN "unknown_variant_" \o ToString(value)
    ELSE ToString(value)

\* impl fmt::Display for #ident
to_string(e, self) ==
    LET arms == e.impl_display.match_arms
        hits == {i \in DOMAIN arms : arms[i].vid = self.case}
    IN  IF hits # {} THEN arms[MinOf(hits)].name
        ELSE write_fmt(e.impl_display.other_fmt, self.payload[1])

\* impl Serialize for #ident: the serializer method called and its argument
serialize(e, self) ==
    IF e.impl_serialize.other_fn = "serialize_str"
    THEN [method |-> "serialize_str", arg |-> to_string(e, self)]
    ELSE IF self.case = e.other_val.ident
         THEN [method |-> e.impl_serialize.other_fn, arg |-> self.payload[1]]
         ELSE [method |-> "serialize_str", arg |-> to_string(e, self)]

InSeq(x, s) == \E i \in DOMAIN s : s[i] = x

GeneratedEnums(unit) == {unit[i] : i \in {j \in DOMAIN unit : unit[j].kind = "enum"}}
EnumOf(unit, ident) == CHOOSE e \in GeneratedEnums(unit) : e.ident = ident
Registry(unit) == unit[2]

\* FieldDataType::is_enum_type
is_enum_type(unit, tag) == InSeq(tag, Registry(unit).is_enum_match_arms)

\* FieldDataType::is_named_variant
registry_is_named_variant(unit, tag, value) ==
    IF InSeq(tag, Registry(unit).is_named_match_arms)
    THEN is_named_variant(EnumOf(unit, tag), value)
    ELSE FALSE

get_field_variant_as_string(unit, tag, value) ==
    IF InSeq(tag, Registry(unit).as_string_match_arms)
    THEN to_string(EnumOf(unit, tag), from_i64(EnumOf(unit, tag), value))
    ELSE "Undefined" \o ToString(value)

(***************************************************************************)
(* write_types_file, step by step, then a client of the generated code:    *)
(* it calls one function of the unit, or constructs one value and calls    *)
(* one method on it.                                                       *)
(***************************************************************************)
Init ==
    /\ profile \in [version : Versions, field_types : Catalogs]
    /\ pc = "start"
    /\ idx = 0
    /\ main_enum = NoRes
    /\ field_type_enums = <<>>
    /\ sink = <<>>
    /\ obj = NoObj
    /\ res = NoRes

\* let main_enum = generate_main_field_type_enum(profile.field_types());
GenerateMain ==
    /\ pc = "start"
    /\ main_enum' = generate_main_field_type_enum(profile.field_types)
    /\ idx' = 1
    /\ pc' = "quote"
    /\ UNCHANGED <<profile, field_type_enums, sink, obj, res>>

\* #( #field_type_enums )* : the next definition's field_type_enum call
FieldTypeEnum ==
    /\ pc = "quote"
    /\ idx <= Len(profile.field_types)
    /\ LET r == field_type_enum(profile.field_types[idx])
       IN  IF r.ok
           THEN /\ field_type_enums' = field_type_enums \o r.tokens
                /\ idx' = idx + 1
                /\ pc' = pc
           ELSE /\ pc' = "panicked"
                /\ UNCHANGED <<field_type_enums, idx>>
    /\ UNCHANGED <<profile, main_enum, sink, obj, res>>

Reverse(s) == [i \in DOMAIN s |-> s[Len(s) + 1 - i]]

\* variation: the sum types are emitted last definition first
output_reversed == <<header(profile), main_enum>> \o Reverse(field_type_enums)

\* let output = quote! { ... #main_enum #( #field_type_enums )* };
output == <<header(profile), main_enum>> \o field_type_enums

\* write!(out, "{}", output) returns Ok(())
WriteOk ==
    /\ pc = "quote"
    /\ idx > Len(profile.field_types)
    /\ sink' = output
    /\ pc' = "written"
    /\ UNCHANGED <<profile, idx, main_enum, field_type_enums, obj, res>>

\* write!(out, "{}", output) returns Err: write_all stopped after k items
WriteErr ==
    /\ pc = "quote"
    /\ idx > Len(profile.field_types)
    /\ \E k \in 0..(Len(output) - 1) : sink' = SubSeq(output, 1, k)
    /\ pc' = "io_error"
    /\ UNCHANGED <<profile, idx, main_enum, field_type_enums, obj, res>>

build_vars == <<profile, idx, main_enum, field_type_enums, sink>>

FromBaseType ==
    /\ pc = "written"
    /\ pc' = "constructed"
    /\ \E e \in GeneratedEnums(sink), v \in InputValues :
          /\ InRange(v, e.impl_from.base_type)
          /\ obj' = [via |-> "base_type", ty |-> e.ident, arg |-> v,
                     self |-> from_base_type(e, v)]
    /\ res' = NoRes
    /\ UNCHANGED build_vars

FromI64 ==
    /\ pc = "written"
    /\ pc' = "constructed"
    /\ \E e \in GeneratedEnums(sink), v \in InputValues :
          obj' = [via |-> "i64", ty |-> e.ident, arg |-> v, self |-> from_i64(e, v)]
    /\ res' = NoRes
    /\ UNCHANGED build_vars

AsBaseType ==
    /\ pc = "constructed"
    /\ pc' = "returned"
    /\ obj # NoObj
    /\ res' = [op |-> "as_base_type", ret |-> as_base_type(EnumOf(sink, obj.ty), obj.self)]
    /\ UNCHANGED <<build_vars, obj>>

AsI64 ==
    /\ pc = "constructed"
    /\ pc' = "returned"
    /\ obj # NoObj
    /\ res' = [op |-> "as_i64", ret |-> as_i64(EnumOf(sink, obj.ty), obj.self)]
    /\ UNCHANGED <<build_vars, obj>>

ToStr ==
    /\ pc = "constructed"
    /\ pc' = "returned"
    /\ obj # NoObj
    /\ res' = [op |-> "to_string", ret |-> to_string(EnumOf(sink, obj.ty), obj.self)]
    /\ UNCHANGED <<build_vars, obj>>

Serialize ==
    /\ pc = "constructed"
    /\ pc' = "returned"
    /\ obj # NoObj
    /\ res' = [op |-> "serialize", ret |-> serialize(EnumOf(sink, obj.ty), obj.self)]
    /\ UNCHANGED <<build_vars, obj>>

IsNamedVariant ==
    /\ pc = "written"
    /\ pc' = "returned"
    /\ \E e \in GeneratedEnums(sink), v \in InputValues :
          res' = [op |-> "is_named_variant", ty |-> e.ident, arg |-> v,
                  ret |-> is_named_variant(e, v)]
    /\ obj' = NoObj
    /\ UNCHANGED build_vars

Tags(unit) == {Registry(unit).tags[i] : i \in DOMAIN Registry(unit).tags}

IsEnumType ==
    /\ pc = "written"
    /\ pc' = "returned"
    /\ \E tag \in Tags(sink) :
          res' = [op |-> "is_enum_type", tag |-> tag, ret |-> is_enum_type(sink, tag)]
    /\ obj' = NoObj
    /\ UNCHANGED build_vars

RegistryIsNamedVariant ==
    /\ pc = "written"
    /\ pc' = "returned"
    /\ pc' = "returned"
    /\ \E tag \in Tags(sink), v \in InputValues :
          res' = [op |-> "registry_is_named_variant", tag |-> tag, arg |-> v,
                  ret |-> registry_is_named_variant(sink, tag, v)]
    /\ obj' = NoObj
    /\ UNCHANGED build_vars

GetFieldVariantAsString ==
    /\ pc = "written"
    /\ pc' = "returned"
    /\ \E tag \in Tags(sink), v \in InputValues :
          res' = [op |-> "get_field_variant_as_string", tag |-> tag, arg |-> v,
                  ret |-> get_field_variant_as_string(sink, tag, v)]
    /\ obj' = NoObj
    /\ UNCHANGED build_vars

Next ==
    \/ GenerateMain
    \/ FieldTypeEnum
    \/ WriteOk
    \/ WriteErr
    \/ FromBaseType
    \/ FromI64
    \/ AsBaseType
    \/ AsI64
    \/ ToStr
    \/ Serialize
    \/ IsNamedVariant
    \/ IsEnumType
    \/ RegistryIsNamedVariant
    \/ GetFieldVariantAsString

Spec == Init /\ [][Next]_vars

(***************************************************************************)
(* Vocabulary of the properties.                                           *)
(***************************************************************************)
FieldTypes == profile.field_types
DefOf(ident) == CHOOSE i \in DOMAIN FieldTypes : FieldTypes[i].ident = ident
HasDef(ident) == \E i \in DOMAIN FieldTypes : FieldTypes[i].ident = ident
Declared(f, v) == \E i \in DOMAIN f.variant_map : f.variant_map[i].value = v
NameOf(f, v) ==
    f.variant_map[CHOOSE i \in DOMAIN f.variant_map : f.variant_map[i].value = v].name
ObjDef == FieldTypes[DefOf(obj.ty)]
Constructed == obj.via \in {"base_type", "i64"}
\* the value of base_type that is congruent to v modulo 2^8
Narrowed(v, ty) == CHOOSE w \in TypeMin(ty)..TypeMax(ty) : (w - v) % 256 = 0
IsFallbackOf(f, self, v) == self = [case |-> f.other_value_field_name, payload |-> <<v>>]
\* base_type and the fallback name are usable
WellFormed(f) == f.base_type \in {"u8", "i8"} /\ f.other_value_field_name = "UnknownVariant"
EnumClassified(f) == f.variant_map # <<>> /\ f.name \notin {"date_time", "local_date_time"}

(***************************************************************************)
(* Properties.                                                             *)
(***************************************************************************)

\* C1: a value built by From<base_type> from v gives back exactly v through
\* as_<base_type>, for a declared value (named case) and for any other value
\* of base_type (fallback case).
C1_RoundTrip ==
    (pc = "returned" /\ obj.via = "base_type" /\ res.op = "as_base_type")
        => res.ret = obj.arg

C1_Witness ==
    /\ pc = "returned" /\ obj.via = "base_type" /\ res.op = "as_base_type"
    /\ obj.self.payload = <<>>
    /\ Len(ObjDef.variant_map) = 2

\* C2 as stated: From<i64> maps every i64 value that is no declared variant
\* value to the fallback case carrying that value, and as_i64 returns it.
C2_AsStated ==
    (obj.via = "i64" /\ ~Declared(ObjDef, obj.arg))
        => /\ IsFallbackOf(ObjDef, obj.self, obj.arg)
           /\ (res.op = "as_i64" => res.ret = obj.arg)

\* C2 amended: From<i64> maps every i64 value that lies in base_type's range
\* and is no declared variant value to the fallback case carrying that value,
\* and as_i64 then returns it; any other i64 value is treated as the value of
\* base_type it is narrowed to.
C2_InRangeLossless ==
    /\ (obj.via = "i64" /\ InRange(obj.arg, ObjDef.base_type) /\ ~Declared(ObjDef, obj.arg))
          => /\ IsFallbackOf(ObjDef, obj.self, obj.arg)
             /\ (res.op = "as_i64" => res.ret = obj.arg)
    /\ obj.via = "i64"
          => obj.self = from_base_type(EnumOf(sink, obj.ty),
                                       Narrowed(obj.arg, ObjDef.base_type))

C2_Witness ==
    /\ pc = "returned" /\ obj.via = "i64" /\ res.op = "as_i64"
    /\ InRange(obj.arg, ObjDef.base_type) /\ ~Declared(ObjDef, obj.arg)
    /\ obj.arg < 0

\* C3: every definition with a usable base_type and fallback name is compiled
\* without aborting whatever the sign of its variant values, and building a
\* value from a declared value v displays the variant's name.
C3_NamedFidelity ==
    /\ (pc = "panicked" => ~WellFormed(FieldTypes[idx]))
    /\ \A i \in DOMAIN FieldTypes :
          (pc = "written" /\ WellFormed(FieldTypes[i]) /\ FieldTypes[i].variant_map # <<>>)
              => \E e \in GeneratedEnums(sink) : e.ident = FieldTypes[i].ident
    /\ (pc = "returned" /\ Constructed /\ res.op = "to_string" /\ Declared(ObjDef, obj.arg))
          => res.ret = NameOf(ObjDef, obj.arg)

\* C4: for a value absent from the variant map the fallback rendering follows
\* the true-enum classification alone: a true enum displays and serializes
\* "unknown_variant_<v>", any other type displays the decimal digits of v and
\* serializes the number v itself; its named cases serialize as their name.
C4_FallbackRendering ==
    (pc = "returned" /\ Constructed /\ InRange(obj.arg, ObjDef.base_type))
        => LET f == ObjDef
               v == obj.arg
           IN  /\ (res.op = "to_string" /\ ~Declared(f, v))
                     => res.ret = IF is_true_enum(f)
                                  THEN "unknown_variant_" \o ToString(v)
                                  ELSE ToString(v)
               /\ (res.op = "serialize" /\ ~Declared(f, v))
                     => res.ret = IF is_true_enum(f)
                                  THEN [method |-> "serialize_str",
                                        arg |-> "unknown_variant_" \o ToString(v)]
                                  ELSE [method |-> "serialize_" \o f.base_type, arg |-> v]
               /\ (res.op = "serialize" /\ Declared(f, v) /\ ~is_true_enum(f))
                     => res.ret = [method |-> "serialize_str", arg |-> NameOf(f, v)]

C4_Witness ==
    /\ pc = "returned" /\ Constructed /\ InRange(obj.arg, ObjDef.base_type)
    /\ res.op = "serialize" /\ ~Declared(ObjDef, obj.arg) /\ ~is_true_enum(ObjDef)
    /\ res.ret.arg = 20

BaseTags == {base_types[i] : i \in DOMAIN base_types}

\* C6 as stated: the registry's tags are the base scalar tags plus one tag per
\* definition that has at least one variant.
C6_AsStated ==
    pc = "written"
        => Tags(sink) = BaseTags \cup
              {FieldTypes[i].ident : i \in {j \in DOMAIN FieldTypes :
                                              FieldTypes[j].variant_map # <<>>}}

\* C6 amended: the registry's tags are the base scalar tags plus one tag per
\* definition of the catalog, with or without variants; a definition with an
\* empty variant_map has a tag although no sum type is generated for it.
C6_TagPerDefinition ==
    pc = "written"
        => /\ Tags(sink) = BaseTags \cup {FieldTypes[i].ident : i \in DOMAIN FieldTypes}
           /\ Len(Registry(sink).tags) = Len(base_types) + Len(FieldTypes)
           /\ \A i \in DOMAIN FieldTypes :
                 FieldTypes[i].variant_map = <<>>
                    => ~ \E e \in GeneratedEnums(sink) : e.ident = FieldTypes[i].ident

C6_Witness ==
    /\ pc = "written"
    /\ \E i \in DOMAIN FieldTypes : FieldTypes[i].variant_map = <<>>
    /\ \E i \in DOMAIN FieldTypes : FieldTypes[i].variant_map # <<>>

IsNamedOrUnknown(f, v) ==
    IF Declared(f, v) THEN NameOf(f, v) ELSE "unknown_variant_" \o ToString(v)

Malformed(f) == ~WellFormed(f)

\* C8 as stated: a catalog with any malformed definition never reaches the
\* write, and its sink stays empty.
C8_AsStated ==
    (\E i \in DOMAIN FieldTypes : Malformed(FieldTypes[i]))
        => /\ pc \in {"start", "quote", "panicked"}
           /\ sink = <<>>

\* C8 amended: a catalog with a malformed definition that has at least one
\* variant never reaches the write, and its sink stays empty; a malformed
\* definition with an empty variant_map is not inspected.
C8_MalformedAborts ==
    (\E i \in DOMAIN FieldTypes :
        Malformed(FieldTypes[i]) /\ FieldTypes[i].variant_map # <<>>)
        => /\ pc \in {"start", "quote", "panicked"}
           /\ sink = <<>>

C8_Witness ==
    /\ pc = "panicked" /\ idx = 2 /\ sink = <<>>
    /\ FieldTypes[idx].base_type = "u8"
    /\ FieldTypes[idx].other_value_field_name = "Unknown Variant"
    /\ \A i \in DOMAIN FieldTypes[idx].variant_map : FieldTypes[idx].variant_map[i].value >= 0

\* position in the catalog of the definition an item was generated from
CatalogPos(item) == DefOf(item.ident)

\* C9: the unit is the header with the version, the registry, then the sum
\* types of the definitions that have variants, in catalog order; the cases of
\* a sum type are the variants in variant_map order, the fallback case last.
C9_EmissionOrder ==
    pc = "written" =>
        /\ Len(sink) >= 2
        /\ sink[1] = [kind |-> "header",
                      doc |-> "Auto generated profile field types from FIT SDK Release: "
                                 \o profile.version]
        /\ sink[2].kind = "registry"
        /\ \A k \in 3..Len(sink) : sink[k].kind = "enum"
        /\ \A i \in DOMAIN FieldTypes :
              FieldTypes[i].variant_map # <<>>
                 => \E k \in 3..Len(sink) : sink[k].ident = FieldTypes[i].ident
        /\ \A k \in 3..Len(sink) :
              /\ HasDef(sink[k].ident)
              /\ FieldTypes[CatalogPos(sink[k])].variant_map # <<>>
        /\ \A k, l \in 3..Len(sink) : k < l => CatalogPos(sink[k]) < CatalogPos(sink[l])
        /\ \A k \in 3..Len(sink) :
              LET f == FieldTypes[CatalogPos(sink[k])]
                  n == Len(f.variant_map)
              IN  /\ Len(sink[k].cases) = n + 1
                  /\ \A i \in 1..n : sink[k].cases[i] = f.variant_map[i].ident
                  /\ sink[k].cases[n + 1] = f.other_value_field_name

C9_Witness ==
    /\ pc = "written" /\ Len(sink) = 4
    /\ Len(sink[3].cases) = 3 /\ sink[3].cases[1] = "Statute"

\* C10 as stated: is_named_variant(v) holds exactly when From<i64>(v) is a
\* named case, for every i64 value v, and the registry's is_named_variant of
\* an enum-classified tag gives the type's answer.
C10_AsStated ==
    /\ (pc = "returned" /\ res.op = "is_named_variant")
          => (res.ret <=> from_i64(EnumOf(sink, res.ty), res.arg).payload = <<>>)
    /\ (pc = "returned" /\ res.op = "registry_is_named_variant"
           /\ HasDef(res.tag) /\ EnumClassified(FieldTypes[DefOf(res.tag)]))
          => (res.ret <=> Declared(FieldTypes[DefOf(res.tag)], res.arg))

\* C10 amended: is_named_variant(v) holds exactly when From<i64>(v) is a
\* named case, for every i64 value v in base_type's range, and is false for
\* every v outside it; the registry's is_named_variant of an enum-classified
\* tag gives the type's answer.
C10_InRangeAgreement ==
    /\ (pc = "returned" /\ res.op = "is_named_variant"
           /\ ~InRange(res.arg, FieldTypes[DefOf(res.ty)].base_type))
          => ~res.ret
    /\ (pc = "returned" /\ res.op = "is_named_variant"
           /\ InRange(res.arg, FieldTypes[DefOf(res.ty)].base_type))
          => (res.ret <=> from_i64(EnumOf(sink, res.ty), res.arg).payload = <<>>)
    /\ (pc = "returned" /\ res.op = "registry_is_named_variant"
           /\ HasDef(res.tag) /\ EnumClassified(FieldTypes[DefOf(res.tag)]))
          => (res.ret <=> Declared(FieldTypes[DefOf(res.tag)], res.arg))

C10_Witness ==
    /\ pc = "returned" /\ res.op = "is_named_variant" /\ res.ret
    /\ InRange(res.arg, FieldTypes[DefOf(res.ty)].base_type)
    /\ from_i64(EnumOf(sink, res.ty), res.arg).payload = <<>>

====
